---- MODULE Spec2Model ----
(***************************************************************************)
(* A model of conversations_to_html.py (class ChatLogToHtml): the run of   *)
(* generate_html over a list of conversations, the walk of one             *)
(* conversation's mapping by process_messages, the content reducers and    *)
(* the files they leave in the output directory.                           *)
(*                                                                         *)
(* Python strings that the code slices, joins or tests by prefix are       *)
(* sequences of one-character strings (<<"a", ".", "b">> is "a.b").  A     *)
(* Python dict is a function whose DOMAIN is the set of keys present.      *)
(* The output directory is a function from file name to file contents.     *)
(***************************************************************************)
EXTENDS Integers, Sequences, FiniteSets, TLC

VARIABLES
    n_convs,      \* len(convs), the input list of generate_html
    i,            \* generate_html: index of the conversation the loop is at
    pc,           \* "loop" | "msgs" | "done" | "failed"
    err,          \* the exception that ended the run ("" while none)
    out_dir,      \* the output directory: file name -> contents
    index_items,  \* generate_html: (title, file name, created) per page written
    conv,         \* generate_html: the conversation being processed
    out_path,     \* generate_html: the page path chosen for conv
    nodes,        \* process_messages: the sorted nodes not yet visited
    msg,          \* process_messages: the message visited last
    msgs,         \* process_messages: the units built so far
    origin,       \* history: for each unit of msgs, the node it came from
    archive_dir   \* self.archive_dir: the entries of the archive, in listing order

vars == <<n_convs, i, pc, err, out_dir, index_items, conv, out_path,
          nodes, msg, msgs, origin, archive_dir>>

----------------------------------------------------------------------------
(* Bounds of the model *)

MaxNodes == 3      \* nodes of one mapping
MaxParts == 3      \* parts of one text content
MaxThoughts == 2   \* entries of one thoughts list
MaxMsgs == 2       \* messages of one conversation, in the runs with varied contents
MaxConvs == 2      \* conversations of a run with varied contents
MaxNamed == 3      \* conversations of a run with varied titles
MaxRun == 12       \* conversations of a run with plain contents

----------------------------------------------------------------------------
(* String literals of the program *)

S_html == <<".", "h", "t", "m", "l">>
S_index_html == <<"i", "n", "d", "e", "x">> \o S_html
S_untitled == <<"u", "n", "t", "i", "t", "l", "e", "d">>
S_Untitled == <<"U", "n", "t", "i", "t", "l", "e", "d">>
S_unknown == <<"u", "n", "k", "n", "o", "w", "n">>
S_user == <<"u", "s", "e", "r">>
S_assistant == <<"a", "s", "s", "i", "s", "t", "a", "n", "t">>
S_tool == <<"t", "o", "o", "l">>
S_text == <<"t", "e", "x", "t">>
S_code == <<"c", "o", "d", "e">>
S_thoughts == <<"t", "h", "o", "u", "g", "h", "t", "s">>
S_multimodal_text == <<"m", "u", "l", "t", "i", "m", "o", "d", "a", "l", "_">> \o S_text
S_user_editable_context ==
    S_user \o <<"_", "e", "d", "i", "t", "a", "b", "l", "e", "_", "c", "o", "n", "t", "e", "x", "t">>
S_execution_output ==
    <<"e", "x", "e", "c", "u", "t", "i", "o", "n", "_", "o", "u", "t", "p", "u", "t">>
S_reasoning_recap ==
    <<"r", "e", "a", "s", "o", "n", "i", "n", "g", "_", "r", "e", "c", "a", "p">>
S_tether_browsing_display ==
    <<"t", "e", "t", "h", "e", "r", "_", "b", "r", "o", "w", "s", "i", "n", "g", "_",
      "d", "i", "s", "p", "l", "a", "y">>
S_tether_quote == <<"t", "e", "t", "h", "e", "r", "_", "q", "u", "o", "t", "e">>
S_system_error == <<"s", "y", "s", "t", "e", "m", "_", "e", "r", "r", "o", "r">>
S_image_asset_pointer ==
    <<"i", "m", "a", "g", "e", "_", "a", "s", "s", "e", "t", "_", "p", "o", "i", "n", "t", "e", "r">>
S_file_service == <<"f", "i", "l", "e", "-", "s", "e", "r", "v", "i", "c", "e">>
S_sediment == <<"s", "e", "d", "i", "m", "e", "n", "t">>
S_scheme_sep == <<":", "/", "/">>
S_dalle_generations ==
    <<"d", "a", "l", "l", "e", "-", "g", "e", "n", "e", "r", "a", "t", "i", "o", "n", "s">>
S_user_dash == S_user \o <<"-">>

\* the prefixes process_* put before a unit's payload and message_to_html reads back
P_image_file == <<"i", "m", "a", "g", "e", "_", "f", "i", "l", "e", ":">>
P_conversation == <<"c", "o", "n", "v", "e", "r", "s", "a", "t", "i", "o", "n", ":">>
P_code == S_code \o <<":">>
P_text_file == S_text \o <<"_", "f", "i", "l", "e", ":">>
P_thought == <<"t", "h", "o", "u", "g", "h", "t", ":">>
P_reasoning_recap == S_reasoning_recap \o <<":">>
P_user_profile == <<"u", "s", "e", "r", "_", "p", "r", "o", "f", "i", "l", "e", ":">>

----------------------------------------------------------------------------
(* Python's str operations, on sequences of characters *)

\* str.startswith
StartsWith(s, p) == Len(s) >= Len(p) /\ SubSeq(s, 1, Len(p)) = p

\* s[n:]
DropFirst(s, n) == SubSeq(s, n + 1, Len(s))

Digits == <<"0", "1", "2", "3", "4", "5", "6", "7", "8", "9">>

LowerLetters == <<"a", "b", "c", "d", "e", "f", "g", "h", "i", "j", "k", "l", "m", "n", "o",
                  "p", "q", "r", "s", "t", "u", "v", "w", "x", "y", "z">>
UpperLetters == <<"A", "B", "C", "D", "E", "F", "G", "H", "I", "J", "K", "L", "M", "N", "O",
                  "P", "Q", "R", "S", "T", "U", "V", "W", "X", "Y", "Z">>
\* str.lower and str.upper, one character
LowerChar(c) ==
    IF \E k \in 1..26 : UpperLetters[k] = c
    THEN LowerLetters[CHOOSE k \in 1..26 : UpperLetters[k] = c] ELSE c
UpperChar(c) ==
    IF \E k \in 1..26 : LowerLetters[k] = c
    THEN UpperLetters[CHOOSE k \in 1..26 : LowerLetters[k] = c] ELSE c
\* \w and \s of the re module, over the characters the model uses
IsWord(c) ==
    \/ \E k \in 1..26 : c = LowerLetters[k] \/ c = UpperLetters[k]
    \/ c \in {Digits[d] : d \in 1..10} \cup {"_"}
IsSpace(c) == c \in {" ", "\n", "\t"}

Lower(s) == [k \in 1..Len(s) |-> LowerChar(s[k])]
\* str.capitalize: first character upper, the rest lower
Capitalize(s) == [k \in 1..Len(s) |-> IF k = 1 THEN UpperChar(s[k]) ELSE LowerChar(s[k])]

\* str.replace(old, new) for a one-character old and a one-character new
ReplaceChar(s, old, new) == [k \in 1..Len(s) |-> IF s[k] = old THEN new ELSE s[k]]

RECURSIVE LStrip(_, _)
LStrip(s, chars) ==
    IF s # <<>> /\ Head(s) \in chars THEN LStrip(Tail(s), chars) ELSE s
RECURSIVE RStrip(_, _)
RStrip(s, chars) ==
    IF s # <<>> /\ s[Len(s)] \in chars THEN RStrip(SubSeq(s, 1, Len(s) - 1), chars) ELSE s
\* str.strip()
Strip(s) == RStrip(LStrip(s, {" ", "\n", "\t"}), {" ", "\n", "\t"})

\* f"{n}" for a natural number
RECURSIVE Decimal(_)
Decimal(n) ==
    IF n < 10 THEN <<Digits[n + 1]>> ELSE Decimal(n \div 10) \o <<Digits[(n % 10) + 1]>>

\* html.escape, one character and a whole string
EscapeChar(c) ==
    CASE c = "&" -> <<"&", "a", "m", "p", ";">>
      [] c = "<" -> <<"&", "l", "t", ";">>
      [] c = ">" -> <<"&", "g", "t", ";">>
      [] c = "\"" -> <<"&", "q", "u", "o", "t", ";">>
      [] c = "'" -> <<"&", "#", "x", "2", "7", ";">>
      [] OTHER -> <<c>>
RECURSIVE html_escape(_)
html_escape(s) == IF s = <<>> THEN <<>> ELSE EscapeChar(Head(s)) \o html_escape(Tail(s))

----------------------------------------------------------------------------
(* canonicalize and get_unique_path *)

max_len == 120

\* re.sub(r"[^\w\s\-\.\(\)&]+", "", value)
RECURSIVE RemoveDisallowed(_)
RemoveDisallowed(s) ==
    IF s = <<>> THEN <<>>
    ELSE IF IsWord(Head(s)) \/ IsSpace(Head(s)) \/ Head(s) \in {"-", ".", "(", ")", "&"}
         THEN <<Head(s)>> \o RemoveDisallowed(Tail(s))
         ELSE RemoveDisallowed(Tail(s))

\* re.sub(r"\s+", " ", value): every run of whitespace becomes one space
RECURSIVE CollapseSpaces(_)
CollapseSpaces(s) ==
    IF s = <<>> THEN <<>>
    ELSE IF IsSpace(Head(s))
         THEN <<" ">> \o CollapseSpaces(LStrip(Tail(s), {" ", "\n", "\t"}))
         ELSE <<Head(s)>> \o CollapseSpaces(Tail(s))

\* unicodedata.normalize("NFKD", .) leaves the ASCII characters of the model as they are
canonicalize(value) ==
    LET v1 == ReplaceChar(ReplaceChar(value, "/", "-"), "\\", "-")
        v2 == RemoveDisallowed(v1)
        v3 == Strip(CollapseSpaces(v2))
        v4 == ReplaceChar(v3, " ", "_")
        v5 == IF v4 = <<>> THEN S_untitled ELSE v4
    IN  IF Len(v5) > max_len
        THEN RStrip(SubSeq(v5, 1, max_len), {".", "_", "-"})
        ELSE v5

\* Path.exists, in the output directory
Exists(dir, name) == name \in DOMAIN dir

\* the candidate of the while loop of get_unique_path: f"{stem}__{i}{suffix}"
Candidate(stem, k) == stem \o <<"_", "_">> \o Decimal(k) \o S_html

\* a get_unique_path that tries the suffix __2 and never the next ones
get_unique_path_first_free_no_probe(title, dir) == Candidate(canonicalize(title), 2)

get_unique_path_first_free(title, dir) ==
    LET stem == canonicalize(title)
        k == CHOOSE k \in 2..(Cardinality(DOMAIN dir) + 2) :
                 /\ ~Exists(dir, Candidate(stem, k))
                 /\ \A j \in 2..(k - 1) : Exists(dir, Candidate(stem, j))
    IN  Candidate(stem, k)

\* fname ends in ".html", so out_path.stem is canonicalize(title) and the suffix ".html"
get_unique_path(title, dir) ==
    IF ~Exists(dir, canonicalize(title) \o S_html)
    THEN canonicalize(title) \o S_html
    ELSE get_unique_path_first_free(title, dir)

----------------------------------------------------------------------------
(* Python values: None, truthiness, dicts *)

\* None where a string may stand: a one-token sequence no string of characters equals
None == <<"None">>

\* a value of varying type carries its type: [t |-> "str" | "dict" | "none" | "int", v |-> value]
PyStr(s) == [t |-> "str", v |-> s]
PyDict(d) == [t |-> "dict", v |-> d]
PyNone == [t |-> "none", v |-> <<>>]
PyInt == [t |-> "int", v |-> <<"5">>]
EmptyDict == <<>>

\* bool(x) of a tagged value
Truthy(x) ==
    CASE x.t = "none" -> FALSE
      [] x.t = "str" -> x.v # <<>>
      [] x.t = "dict" -> DOMAIN x.v # {}
      [] OTHER -> TRUE

\* `a or b` for strings that may be None
OrElse(a, b) == IF a = None \/ a = <<>> THEN b ELSE a

\* dict.get(key) for a string-valued key: None when the key is absent
Get(d, key) == IF key \in DOMAIN d THEN d[key] ELSE None

\* a processing result: the units, the output directory, and the exception raised ("" if none)
Res(ms, dir, e) == [msgs |-> ms, out |-> dir, err |-> e]

\* msgs.append({"role": author, "audience": recipient, "content": text})
Unit(author, recipient, text) == [role |-> author, audience |-> recipient, content |-> text]

\* dir with file `name` holding `data`
WriteFile(dir, name, data) ==
    [f \in DOMAIN dir \cup {name} |-> IF f = name THEN data ELSE dir[f]]

----------------------------------------------------------------------------
(* File staging: copy_file_to_dir_if_new, create_file_if_new, glob, find_image *)

\* an archive entry: [dir |-> subdirectory (<<>> for the root), name, data, isdir]

\* the directories the three patterns of the program search: the archive root,
\* dalle-generations, and every directory matching user-*
InDir(where, d) ==
    CASE where = "root" -> d = <<>>
      [] where = "dalle-generations" -> d = S_dalle_generations
      [] where = "user-*" -> StartsWith(d, S_user_dash)

\* glob.glob(os.path.join(archive_dir, <where>, prefix + "*")): the entries of the
\* directories searched whose name starts with prefix, in listing order
Glob(archive, where, prefix) ==
    SelectSeq(archive, LAMBDA e : InDir(where, e.dir) /\ StartsWith(e.name, prefix))

\* a variant without the os.path.exists test: the copy replaces the destination
copy_file_to_dir_if_new_overwrite(dir, file) ==
    IF file.isdir THEN dir ELSE WriteFile(dir, file.name, file.data)

\* returns the output directory after the call; the destination is the basename file.name.
\* shutil.copy2 of a directory raises, the except clause swallows it
copy_file_to_dir_if_new(dir, file) ==
    IF Exists(dir, file.name) THEN dir
    ELSE IF file.isdir THEN dir
    ELSE WriteFile(dir, file.name, file.data)

\* open(filepath, 'x') raises FileExistsError on an existing file; the except re-raises it
create_file_if_new(dir, filename, contents) ==
    IF Exists(dir, filename) THEN [out |-> dir, err |-> "FileExistsError"]
    ELSE [out |-> WriteFile(dir, filename, contents), err |-> ""]

find_image(archive, metadata, filename) ==
    IF Truthy(metadata) /\ "dalle" \in DOMAIN metadata.v /\ metadata.v["dalle"].t # "none"
    THEN IF Len(Glob(archive, "dalle-generations", filename)) > 0
         THEN Glob(archive, "dalle-generations", filename)
         ELSE IF Len(Glob(archive, "user-*", filename)) > 0
              THEN Glob(archive, "user-*", filename)
              ELSE <<>>
    ELSE <<>>

----------------------------------------------------------------------------
(* The content reducers *)

RECURSIVE StageFiles(_, _, _, _, _)
\* the loop `for specific_file in files` of process_image_content
StageFiles(files, ms, author, recipient, dir) ==
    IF files = <<>> THEN Res(ms, dir, "")
    ELSE StageFiles(Tail(files),
                    Append(ms, Unit(author, recipient, P_image_file \o Head(files).name)),
                    author, recipient,
                    copy_file_to_dir_if_new(dir, Head(files)))

\* a variant that cuts the same 15 characters off a sediment pointer
PointerPattern_same_offset(asset_pointer) == DropFirst(asset_pointer, 15)

\* the glob pattern without its final "*"
PointerPattern(asset_pointer) ==
    IF StartsWith(asset_pointer, S_file_service) THEN DropFirst(asset_pointer, 15)
    ELSE DropFirst(asset_pointer, 11)

process_image_content(archive, part, ms, author, recipient, dir) ==
    IF "asset_pointer" \notin DOMAIN part THEN Res(ms, dir, "KeyError")
    ELSE IF ~(\/ StartsWith(part["asset_pointer"], S_file_service)
              \/ StartsWith(part["asset_pointer"], S_sediment))
    THEN Res(ms, dir, "Exception: Unexpected asset pointer")
    ELSE LET filename == PointerPattern(part["asset_pointer"])
             found == IF "metadata" \in DOMAIN part
                      THEN find_image(archive, part["metadata"], filename)
                      ELSE <<>>
             files == IF Len(found) = 0 THEN Glob(archive, "root", filename) ELSE found
         IN  StageFiles(files, ms, author, recipient, dir)

\* a variant without `if not part: continue`: an empty string gets a unit
ProcessPart_keeps_empty(archive, part, ms, author, recipient, dir) ==
    IF part.t = "dict"
    THEN IF "content_type" \notin DOMAIN part.v THEN Res(ms, dir, "KeyError")
         ELSE IF part.v["content_type"] = S_image_asset_pointer
              THEN process_image_content(archive, part.v, ms, author, recipient, dir)
              ELSE Res(ms, dir, "Exception: Some other content type?")
    ELSE IF part.t = "str"
    THEN Res(Append(ms, Unit(author, recipient, P_conversation \o part.v \o <<"\n">>)), dir, "")
    ELSE Res(ms, dir, "Exception: Unexpected conversation part")

\* one iteration of `for part in parts` of process_conversation_content
ProcessPart(archive, part, ms, author, recipient, dir) ==
    IF ~Truthy(part) THEN Res(ms, dir, "")
    ELSE IF part.t = "dict"
    THEN IF "content_type" \notin DOMAIN part.v THEN Res(ms, dir, "KeyError")
         ELSE IF part.v["content_type"] = S_image_asset_pointer
              THEN process_image_content(archive, part.v, ms, author, recipient, dir)
              ELSE Res(ms, dir, "Exception: Some other content type?")
    ELSE IF part.t = "str"
    THEN Res(Append(ms, Unit(author, recipient, P_conversation \o part.v \o <<"\n">>)), dir, "")
    ELSE Res(ms, dir, "Exception: Unexpected conversation part")

RECURSIVE ProcessParts(_, _, _, _, _, _)
ProcessParts(archive, parts, ms, author, recipient, dir) ==
    IF parts = <<>> THEN Res(ms, dir, "")
    ELSE LET r == ProcessPart(archive, Head(parts), ms, author, recipient, dir)
         IN  IF r.err # "" THEN r
             ELSE ProcessParts(archive, Tail(parts), r.msgs, author, recipient, r.out)

process_conversation_content(archive, content, ms, author, recipient, dir) ==
    IF "parts" \notin DOMAIN content
    THEN Res(ms, dir, "Exception: Unexpected conversation format")
    ELSE ProcessParts(archive, content["parts"], ms, author, recipient, dir)

process_multimodal_text_content(archive, content, ms, author, recipient, dir) ==
    process_conversation_content(archive, content, ms, author, recipient, dir)

process_code_content(content, ms, author, recipient, dir) ==
    IF "text" \notin DOMAIN content THEN Res(ms, dir, "KeyError")
    ELSE Res(Append(ms, Unit(author, recipient, P_code \o content["text"])), dir, "")

RECURSIVE ThoughtUnits(_, _, _, _, _)
\* the loop `for thought in thoughts`
ThoughtUnits(thoughts, ms, author, recipient, dir) ==
    IF thoughts = <<>> THEN Res(ms, dir, "")
    ELSE IF ~({"summary", "content"} \subseteq DOMAIN Head(thoughts))
    THEN Res(ms, dir, "KeyError")
    ELSE ThoughtUnits(Tail(thoughts),
                      Append(ms, Unit(author, recipient,
                                      P_thought \o Head(thoughts)["summary"] \o <<":">>
                                                \o Head(thoughts)["content"])),
                      author, recipient, dir)

\* a variant that appends after the loop: only the last thought gets a unit
process_multiple_thoughts_content_last_only(content, ms, author, recipient, dir) ==
    IF content["thoughts"] = <<>> THEN Res(ms, dir, "")
    ELSE ThoughtUnits(<<content["thoughts"][Len(content["thoughts"])]>>, ms, author,
                      recipient, dir)

process_multiple_thoughts_content(content, ms, author, recipient, dir) ==
    ThoughtUnits(content["thoughts"], ms, author, recipient, dir)

process_thoughts_content(content, ms, author, recipient, dir) ==
    IF "thoughts" \in DOMAIN content
    THEN process_multiple_thoughts_content(content, ms, author, recipient, dir)
    ELSE IF "text" \in DOMAIN content
    THEN Res(Append(ms, Unit(author, recipient, P_code \o content["text"])), dir, "")
    ELSE Res(ms, dir, "Exception: Unrecognized thought content")

process_text_upload_content(content, ms, author, recipient, dir) ==
    IF "title" \notin DOMAIN content THEN Res(ms, dir, "KeyError")
    ELSE LET made == create_file_if_new(dir, content["title"], content["text"])
         IN  IF made.err # "" THEN Res(ms, made.out, made.err)
             ELSE Res(Append(ms, Unit(author, recipient, P_text_file \o content["title"])),
                      made.out, "")

process_other_content_types(content, ms, author, recipient, content_type, dir) ==
    IF "content" \notin DOMAIN content THEN Res(ms, dir, "KeyError")
    ELSE Res(Append(ms, Unit(author, recipient, content_type \o <<":">> \o content["content"])),
             dir, "")

process_user_editable_content(content, ms, author, recipient, dir) ==
    IF "user_profile" \in DOMAIN content
    THEN Res(Append(ms, Unit(author, recipient, P_user_profile \o content["user_profile"])),
             dir, "")
    ELSE Res(ms, dir, "Exception: Unexpected user content format")

NoRenderTypes ==
    {S_execution_output, S_reasoning_recap, S_tether_browsing_display, S_tether_quote,
     S_system_error}

\* a variant without the branch of the types that render nothing
process_content_type_no_skip(archive, content, ms, author, recipient, content_type, dir) ==
    IF content_type = S_text
    THEN process_conversation_content(archive, content, ms, author, recipient, dir)
    ELSE IF content_type = S_code
    THEN process_code_content(content, ms, author, recipient, dir)
    ELSE IF content_type = S_thoughts
    THEN process_thoughts_content(content, ms, author, recipient, dir)
    ELSE IF content_type = S_multimodal_text
    THEN process_multimodal_text_content(archive, content, ms, author, recipient, dir)
    ELSE IF content_type = S_user_editable_context
    THEN process_user_editable_content(content, ms, author, recipient, dir)
    ELSE process_other_content_types(content, ms, author, recipient, content_type, dir)

process_content_type(archive, content, ms, author, recipient, content_type, dir) ==
    IF content_type = S_text
    THEN process_conversation_content(archive, content, ms, author, recipient, dir)
    ELSE IF content_type = S_code
    THEN process_code_content(content, ms, author, recipient, dir)
    ELSE IF content_type = S_thoughts
    THEN process_thoughts_content(content, ms, author, recipient, dir)
    ELSE IF content_type = S_multimodal_text
    THEN process_multimodal_text_content(archive, content, ms, author, recipient, dir)
    ELSE IF content_type = S_user_editable_context
    THEN process_user_editable_content(content, ms, author, recipient, dir)
    ELSE IF content_type \in NoRenderTypes
    THEN Res(ms, dir, "")
    ELSE process_other_content_types(content, ms, author, recipient, content_type, dir)

\* a variant that looks for "text" before "content_type"
ClassifyContent_text_first(archive, content, ms, author, recipient, dir) ==
    IF content.t # "dict" THEN Res(ms, dir, "Exception: Unrecognized content format")
    ELSE IF "text" \in DOMAIN content.v
    THEN process_text_upload_content(content.v, ms, author, recipient, dir)
    ELSE IF "content_type" \in DOMAIN content.v
    THEN process_content_type(archive, content.v, ms, author, recipient,
                              content.v["content_type"], dir)
    ELSE IF "thoughts" \in DOMAIN content.v
    THEN process_thoughts_content(content.v, ms, author, recipient, dir)
    ELSE Res(ms, dir, "Exception: Unrecognized content block")

\* lines 385-396 of process_messages: the classification of one content value
ClassifyContent(archive, content, ms, author, recipient, dir) ==
    IF content.t # "dict" THEN Res(ms, dir, "Exception: Unrecognized content format")
    ELSE IF "content_type" \in DOMAIN content.v
    THEN process_content_type(archive, content.v, ms, author, recipient,
                              content.v["content_type"], dir)
    ELSE IF "text" \in DOMAIN content.v
    THEN process_text_upload_content(content.v, ms, author, recipient, dir)
    ELSE IF "thoughts" \in DOMAIN content.v
    THEN process_thoughts_content(content.v, ms, author, recipient, dir)
    ELSE Res(ms, dir, "Exception: Unrecognized content block")

get_author(author) == OrElse(Get(author, "role"), OrElse(Get(author, "name"), S_unknown))

get_recipient(m) == IF "recipient" \in DOMAIN m THEN m["recipient"] ELSE None

\* the body of `for node in nodes` of process_messages, for the message m of the node
\* (a tagged value: a dict, None, or something else)
ProcessNodeMessage(archive, m, ms, dir) ==
    IF ~Truthy(m) THEN Res(ms, dir, "")
    ELSE IF m.t # "dict" THEN Res(ms, dir, "Exception: Unrecognized message format")
    ELSE ClassifyContent(archive,
                         IF "content" \in DOMAIN m.v THEN m.v["content"] ELSE PyNone,
                         ms,
                         get_author(IF "author" \in DOMAIN m.v THEN m.v["author"] ELSE EmptyDict),
                         get_recipient(m.v),
                         dir)

----------------------------------------------------------------------------
(* process_messages: the sort key and the sort *)

\* a create_time value: [t |-> "none" | "num" | "str", v |-> the number]; "str" is a
\* string that float() rejects
TimeTruthy(x) == (x.t = "num" /\ x.v # 0) \/ x.t = "str"

\* a node of the mapping: [pos |-> its place in mapping.items(),
\*                         kind |-> what node["message"] is: "dict", "empty" ({}), "none"
\*                                  (None), "str" (a string), "nokey" (no such key),
\*                         mct |-> message["create_time"], nct |-> node["create_time"]]
key_fn(n) ==
    IF n.kind \in {"none", "empty"} THEN 0
    ELSE LET t == IF TimeTruthy(n.mct) THEN n.mct
                  ELSE IF TimeTruthy(n.nct) THEN n.nct
                  ELSE [t |-> "num", v |-> 0]
         IN  IF t.t = "num" THEN t.v ELSE 0

\* key_fn raises AttributeError on a message that is a non-empty string
KeyRaises(n) == n.kind = "str"

RECURSIVE InsertByKey_before_equal(_, _)
\* an insertion that puts a node before the nodes of its own key: a sort that is not stable
InsertByKey_before_equal(sorted, n) ==
    IF sorted = <<>> THEN <<n>>
    ELSE IF key_fn(Head(sorted)) < key_fn(n)
         THEN <<Head(sorted)>> \o InsertByKey_before_equal(Tail(sorted), n)
         ELSE <<n>> \o sorted

RECURSIVE InsertByKey(_, _)
InsertByKey(sorted, n) ==
    IF sorted = <<>> THEN <<n>>
    ELSE IF key_fn(Head(sorted)) <= key_fn(n)
         THEN <<Head(sorted)>> \o InsertByKey(Tail(sorted), n)
         ELSE <<n>> \o sorted

RECURSIVE list_sort(_)
\* nodes.sort(key=key_fn): ascending in the key and stable
list_sort(ns) ==
    IF ns = <<>> THEN <<>>
    ELSE InsertByKey(list_sort(SubSeq(ns, 1, Len(ns) - 1)), ns[Len(ns)])

\* [v for _, v in mapping.items() if isinstance(v, dict) and "message" in v]
MessageNodes(mapping) == SelectSeq(mapping, LAMBDA n : n.kind # "nokey")

----------------------------------------------------------------------------
(* Rendering: get_role, message_to_html, get_date, the page and the index *)

\* the names given on the command line (their defaults)
user_name == <<"U", "s", "e", "r">>
assistant_name == <<"A", "s", "s", "i", "s", "t", "a", "n", "t">>

\* a unit has the key "role" and no "author" or "sender": the first operand of the
\* chain of `or` decides, a string; the entries of role_map for system, tool, developer
\* and function equal role.capitalize()
get_role(m) ==
    LET role == Lower(m.role)
    IN  IF role = S_user THEN user_name
        ELSE IF role = S_assistant THEN assistant_name
        ELSE IF role = S_unknown THEN <<"M", "e", "s", "s", "a", "g", "e">>
        ELSE Capitalize(role)

\* markdown.markdown is a library call: its result is kept as the marked text
md_to_html(text) == IF text = <<>> THEN <<>> ELSE <<"<md>">> \o text \o <<"</md>">>

message_to_html(message, role_label) ==
    LET recipient == ReplaceChar(Lower(Strip(OrElse(message.audience, <<>>))), ".", "-")
        rec_cls == IF recipient # <<>> THEN <<" message--r-">> \o recipient ELSE <<>>
        rec_badge == IF recipient # <<>>
                     THEN <<"<span class=badge>">> \o html_escape(recipient) \o <<"</span>">>
                     ELSE <<>>
        open == <<"<div class=message">> \o rec_cls \o <<">", "\n", "<div class=role>">>
                    \o html_escape(role_label) \o rec_badge \o <<"</div>", "\n",
                    "<div class=msg-body>">>
        close == <<"\n", "</div></div>">>
        content == message.content
    IN  IF StartsWith(content, P_image_file)
        THEN [html |-> open \o <<"\n", "<img src=">> \o DropFirst(content, 11) \o <<">">> \o close,
              err |-> ""]
        ELSE IF StartsWith(content, P_conversation)
        THEN [html |-> open \o <<"\n">> \o md_to_html(DropFirst(content, 13)) \o close, err |-> ""]
        ELSE IF StartsWith(content, P_code)
        THEN [html |-> open \o <<"\n">> \o md_to_html(DropFirst(content, 5)) \o close, err |-> ""]
        ELSE IF StartsWith(content, P_text_file)
        THEN [html |-> open \o <<"\n", "<a href=">> \o DropFirst(content, 10) \o <<">">>
                            \o DropFirst(content, 10) \o <<"</a>", "\n">> \o close,
              err |-> ""]
        ELSE IF StartsWith(content, P_thought)
        THEN [html |-> open \o <<"\n", "thought:">> \o DropFirst(content, 8) \o <<">", "\n">>
                            \o close,
              err |-> ""]
        ELSE IF StartsWith(content, P_reasoning_recap)
        THEN [html |-> open \o <<"\n", "reasoning_recap:">> \o DropFirst(content, 16)
                            \o <<"'", ">", "\n">> \o close,
              err |-> ""]
        ELSE IF StartsWith(content, P_user_profile)
        THEN [html |-> open \o <<"\n", "user_profile:">> \o DropFirst(content, 13)
                            \o <<"'", ">", "\n">> \o close,
              err |-> ""]
        ELSE [html |-> <<>>, err |-> "Exception: Unrecognized content type"]

RECURSIVE RenderMessages(_)
\* the loop `for m in msgs` of generate_html, and "\n".join(messages)
RenderMessages(ms) ==
    IF ms = <<>> THEN [html |-> <<>>, err |-> ""]
    ELSE LET first == message_to_html(Head(ms), get_role(Head(ms)))
             rest == RenderMessages(Tail(ms))
         IN  IF first.err # "" THEN first
             ELSE IF rest.err # "" THEN rest
             ELSE [html |-> first.html \o (IF Tail(ms) = <<>> THEN <<>> ELSE <<"\n">>)
                                       \o rest.html,
                   err |-> ""]

\* strftime is a library call: the date text is kept as the timestamp it renders
get_date(d) ==
    IF d.create_time = 0 THEN <<>> ELSE <<"date:">> \o Decimal(d.create_time)

\* page_html.format(title=, date=, css=, body=).  The contents of a page file are kept
\* as its title and date; the body, which RenderMessages computes, is long and no
\* operation of the program reads a page back
PageHtml(title, created, body) ==
    <<"<title>">> \o title \o <<"</title>", "<date>">> \o created \o <<"</date>">>

RECURSIVE IndexCards(_)
IndexCards(items) ==
    IF items = <<>> THEN <<>>
    ELSE <<"<card title=">> \o html_escape(Lower(Head(items)[1])) \o <<" href=">>
             \o html_escape(Head(items)[2]) \o <<">">> \o html_escape(Head(items)[1])
             \o <<"<small>">> \o html_escape(Head(items)[3]) \o <<"</small>", "</card>">>
             \o IndexCards(Tail(items))

build_index(items) == <<"<index>">> \o IndexCards(items) \o <<"</index>">>

----------------------------------------------------------------------------
(* The run: generate_html, with process_messages unfolded into its loop *)

\* generate_html stops reading the input at `if i > 10: break`
LoopLimit == 10

\* conv['title'], with `if not title: title = "Untitled"`
TitleOf(c) == OrElse(c.title, S_Untitled)

\* the message of a node: what the input holds at node["message"]; a dict message is one
\* of `bodies` with the node's create_time
NodeMessages(n, bodies) ==
    IF n.kind = "none" THEN {PyNone}
    ELSE IF n.kind = "empty" THEN {PyDict(EmptyDict)}
    ELSE IF n.kind = "str" THEN {PyStr(<<"x">>)}
    ELSE {PyDict([k \in DOMAIN b \cup {"create_time"} |->
                     IF k = "create_time" THEN n.mct ELSE b[k]]) : b \in bodies}

\* one pass of the for loop of generate_html up to the call of process_messages, and
\* process_messages up to its own for loop (lines 580-584 and 360-375)
BeginConversation(convs) ==
    /\ pc = "loop"
    /\ i < n_convs
    /\ i <= LoopLimit
    /\ \E c \in convs :
        /\ conv' = c
        /\ out_path' = get_unique_path(TitleOf(c), out_dir)
        /\ IF c.mapping.t # "dict"
           THEN /\ pc' = "failed"
                /\ err' = "Exception: Unrecognized mapping format"
                /\ nodes' = <<>>
           ELSE IF \E k \in 1..Len(c.mapping.v) :
                      c.mapping.v[k].kind # "nokey" /\ KeyRaises(c.mapping.v[k])
           THEN /\ pc' = "failed"
                /\ err' = "AttributeError"
                /\ nodes' = <<>>
           ELSE /\ pc' = "msgs"
                /\ err' = ""
                /\ nodes' = list_sort(MessageNodes(c.mapping.v))
    /\ msgs' = <<>>
    /\ origin' = <<>>
    /\ UNCHANGED <<n_convs, i, out_dir, index_items, msg, archive_dir>>

\* one pass of the for loop of process_messages (lines 376-396), reducers included
ProcessMessage(bodies) ==
    /\ pc = "msgs"
    /\ nodes # <<>>
    /\ \E m \in NodeMessages(Head(nodes), bodies) :
        LET r == ProcessNodeMessage(archive_dir, m, msgs, out_dir)
        IN  /\ msg' = m
            /\ msgs' = r.msgs
            /\ out_dir' = r.out
            /\ origin' = origin \o [k \in 1..(Len(r.msgs) - Len(msgs)) |-> Head(nodes)]
            /\ IF r.err # ""
               THEN pc' = "failed" /\ err' = r.err
               ELSE UNCHANGED <<pc, err>>
    /\ nodes' = Tail(nodes)
    /\ UNCHANGED <<n_convs, i, index_items, conv, out_path, archive_dir>>

\* the rest of the pass of generate_html (lines 585-597): render, write the page, record
\* it.  msgs is dead after the page is written and is reassigned by the next pass
FinishConversation ==
    /\ pc = "msgs"
    /\ nodes = <<>>
    /\ LET body == RenderMessages(msgs)
           title == html_escape(TitleOf(conv))
       IN  IF body.err # ""
           THEN /\ pc' = "failed"
                /\ err' = body.err
                /\ UNCHANGED <<i, out_dir, index_items, msgs, origin>>
           ELSE /\ out_dir' = WriteFile(out_dir, out_path,
                                        PageHtml(title, get_date(conv), body.html))
                /\ index_items' = Append(index_items, <<title, out_path, get_date(conv)>>)
                /\ i' = i + 1
                /\ pc' = "loop"
                /\ msgs' = <<>>
                /\ origin' = <<>>
                /\ UNCHANGED err
    /\ UNCHANGED <<n_convs, conv, out_path, nodes, msg, archive_dir>>

\* after the loop (lines 599-600): build_index and the write of index.html
WriteIndex ==
    /\ pc = "loop"
    /\ (i >= n_convs \/ i > LoopLimit)
    /\ out_dir' = WriteFile(out_dir, S_index_html, build_index(index_items))
    /\ pc' = "done"
    /\ UNCHANGED <<n_convs, i, err, index_items, conv, out_path, nodes, msg, msgs, origin,
                   archive_dir>>

----------------------------------------------------------------------------
(* The archive directory and the inputs *)

File(d, n, c) == [dir |-> d, name |-> n, data |-> c, isdir |-> FALSE]
Dir(n) == [dir |-> <<>>, name |-> n, data |-> <<>>, isdir |-> TRUE]
S_user_1 == S_user_dash \o <<"1">>
S_user_2 == S_user_dash \o <<"2">>

\* An archive: Xa in the root; Ya and Yb under dalle-generations; Za under both user-1
\* and user-2, with different bytes
ArchiveListing ==
    << File(<<>>, <<"X", "a">>, <<"bytes of Xa">>),
       Dir(S_dalle_generations),
       File(S_dalle_generations, <<"Y", "a">>, <<"bytes of Ya">>),
       File(S_dalle_generations, <<"Y", "b">>, <<"bytes of Yb">>),
       Dir(S_user_1),
       File(S_user_1, <<"Z", "a">>, <<"bytes of user-1/Za">>),
       Dir(S_user_2),
       File(S_user_2, <<"Z", "a">>, <<"bytes of user-2/Za">>) >>

Reverse(s) == [k \in 1..Len(s) |-> s[Len(s) + 1 - k]]

\* glob returns its matches in the order of the directory listing, which the file
\* system decides
Archives == {ArchiveListing, Reverse(ArchiveListing)}

EmptyDirectory == <<>>

InitWith(max_convs, dirs, archives) ==
    /\ n_convs \in 0..max_convs
    /\ i = 0
    /\ pc = "loop"
    /\ err = ""
    /\ out_dir \in dirs
    /\ index_items = <<>>
    /\ conv = [title |-> None, create_time |-> 0, mapping |-> PyNone]
    /\ out_path = <<>>
    /\ nodes = <<>>
    /\ msg = PyNone
    /\ msgs = <<>>
    /\ origin = <<>>
    /\ archive_dir \in archives

\* the nodes of the inputs
NoTime == [t |-> "none", v |-> 0]
Num(x) == [t |-> "num", v |-> x]
NotANumber == [t |-> "str", v |-> 0]
Node(p, k, m, n) == [pos |-> p, kind |-> k, mct |-> m, nct |-> n]

\* a mapping of n nodes, each with a dict message and no create_time
PlainMapping(n) == PyDict([k \in 1..n |-> Node(k, "dict", NoTime, NoTime)])

Conv(title, created, mapping) == [title |-> title, create_time |-> created, mapping |-> mapping]

\* messages around a content dict
FromUser(content) == [author |-> [role |-> S_user], content |-> PyDict(content)]
ToTool(content) ==
    [author |-> [role |-> S_assistant], recipient |-> <<"t", ".", "x">>,
     content |-> PyDict(content)]

Thought(k) == [summary |-> <<LowerLetters[2 * k - 1]>>, content |-> <<LowerLetters[2 * k]>>]
ThoughtList(n) == [k \in 1..n |-> Thought(k)]

T_h == <<"h">>
T_g == <<"g">>
F_notes == <<"n", ".", "t", "x", "t">>
S_foo == <<"f", "o", "o">>

----------------------------------------------------------------------------
(* Spec: runs whose messages cover the shapes the classifier tells apart *)

ClassifierContents ==
    { [content_type |-> S_code, text |-> T_h],
      [content_type |-> S_code, text |-> T_h, title |-> F_notes, thoughts |-> ThoughtList(1)],
      [content_type |-> S_code],
      [content_type |-> S_thoughts, text |-> T_h],
      [content_type |-> S_thoughts],
      [content_type |-> S_thoughts, thoughts |-> <<[summary |-> <<"a">>]>>],
      [content_type |-> S_user_editable_context, user_profile |-> T_h],
      [content_type |-> S_user_editable_context],
      [content_type |-> S_system_error, text |-> T_h, title |-> F_notes,
       thoughts |-> ThoughtList(1), parts |-> <<PyStr(T_h)>>, content |-> T_h],
      [content_type |-> S_foo, content |-> T_h],
      [content_type |-> S_foo],
      [content_type |-> S_text, parts |-> <<PyStr(T_h)>>],
      [content_type |-> S_text],
      [text |-> T_h, title |-> F_notes],
      [text |-> T_g, title |-> F_notes],
      [text |-> T_h, title |-> F_notes, thoughts |-> ThoughtList(1)],
      [text |-> T_h],
      EmptyDict }
    \cup { [content_type |-> t] : t \in NoRenderTypes }
    \cup { [content_type |-> S_thoughts, thoughts |-> ThoughtList(n)] : n \in 0..MaxThoughts }
    \cup { [thoughts |-> ThoughtList(n)] : n \in 0..MaxThoughts }

ClassifierBodies ==
    { FromUser(c) : c \in ClassifierContents }
    \cup { ToTool([content_type |-> S_thoughts, thoughts |-> ThoughtList(MaxThoughts)]),
           [author |-> [name |-> S_tool], content |-> PyStr(T_h)],
           [content |-> PyNone] }

ClassifierConvs == { Conv(<<"a">>, 0, PlainMapping(n)) : n \in 0..MaxMsgs }

\* a directory a former run left its files in
UsedDirectory == WriteFile(EmptyDirectory, F_notes, <<"old notes">>)

Init == InitWith(MaxConvs, {EmptyDirectory, UsedDirectory}, Archives)

Next ==
    \/ BeginConversation(ClassifierConvs)
    \/ ProcessMessage(ClassifierBodies)
    \/ FinishConversation
    \/ WriteIndex

Spec == Init /\ [][Next]_vars

----------------------------------------------------------------------------
(* SpecParts: one conversation whose messages are text contents, over the parts *)
(* process_conversation_content tells apart                                     *)

Pointer(scheme, rest) == scheme \o S_scheme_sep \o rest
ImagePart(pointer) ==
    PyDict([content_type |-> S_image_asset_pointer, asset_pointer |-> pointer])
ImagePartWith(pointer, metadata) ==
    PyDict([content_type |-> S_image_asset_pointer, asset_pointer |-> pointer,
            metadata |-> metadata])

M_dalle == PyDict([dalle |-> PyDict([gen_id |-> <<"1">>])])

ImgX == ImagePart(Pointer(S_file_service, <<"X">>))
ImgQ == ImagePart(Pointer(S_file_service, <<"Q">>))

\* every list of at most MaxParts parts, each the string "h" or a pointer to Xa
RECURSIVE ListsOver(_, _)
ListsOver(alphabet, n) ==
    IF n = 0 THEN {<<>>}
    ELSE ListsOver(alphabet, n - 1)
         \cup { Append(l, a) : l \in { l \in ListsOver(alphabet, n - 1) : Len(l) = n - 1 },
                               a \in alphabet }

PartLists ==
    ListsOver({PyStr(T_h), ImgX}, MaxParts)
    \cup { <<PyStr(T_h), ImgX, PyStr(T_g)>>,
           <<PyStr(<<>>), PyStr(T_h), PyNone, PyDict(EmptyDict), PyStr(T_g)>>,
           <<ImgQ>>,
           <<ImgQ, PyStr(T_h)>>,
           <<ImagePartWith(Pointer(S_file_service, <<"Q">>), M_dalle), PyStr(T_h)>>,
           <<ImagePartWith(Pointer(S_sediment, <<"Y">>), M_dalle)>>,
           <<ImagePart(Pointer(S_sediment, <<"Y">>))>>,
           <<ImagePartWith(Pointer(S_file_service, <<"Z">>), M_dalle)>>,
           <<PyStr(T_h), ImagePartWith(Pointer(S_sediment, <<"Z", "a">>), M_dalle)>>,
           <<ImagePartWith(Pointer(S_file_service, <<"X">>), M_dalle)>>,
           <<ImagePartWith(Pointer(S_file_service, <<"Y">>), PyDict([dalle |-> PyNone]))>>,
           <<ImagePartWith(Pointer(S_file_service, <<"Y">>), PyDict([sanitized |-> PyNone]))>>,
           <<ImagePartWith(Pointer(S_file_service, <<"Y">>), PyNone)>>,
           <<ImagePart(Pointer(S_sediment, <<"X">>))>>,
           <<ImagePart(S_sediment)>>,
           <<ImagePart(Pointer(<<"h", "t", "t", "p">>, <<"X">>)), PyStr(T_h)>>,
           <<PyStr(T_h), ImagePart(Pointer(<<"h", "t", "t", "p">>, <<"X">>))>>,
           <<PyDict([content_type |-> S_image_asset_pointer])>>,
           <<PyDict([content_type |-> S_text])>>,
           <<PyDict([asset_pointer |-> Pointer(S_file_service, <<"X">>)])>>,
           <<PyStr(T_h), PyInt, PyStr(T_g)>> }

PartsContents ==
    { [content_type |-> S_text, parts |-> l] : l \in PartLists }
    \cup { [content_type |-> S_multimodal_text, parts |-> l] :
              l \in { <<PyStr(T_h), ImgX, PyStr(T_g)>>, <<ImgQ>>, <<PyStr(<<>>)>> } }
    \cup { [content_type |-> S_text], [content_type |-> S_multimodal_text] }

PartsBodies ==
    { FromUser(c) : c \in PartsContents }
    \cup { ToTool([content_type |-> S_text, parts |-> <<PyStr(T_h), ImgX, PyStr(T_g)>>]) }

PartsConvs == { Conv(<<"a">>, 1, PlainMapping(n)) : n \in 0..MaxMsgs }

\* a directory a file named Za was staged in before, from other bytes
StagedDirectory == WriteFile(EmptyDirectory, <<"Z", "a">>, <<"bytes staged before">>)

InitParts == InitWith(1, {EmptyDirectory, StagedDirectory}, Archives)

NextParts ==
    \/ BeginConversation(PartsConvs)
    \/ ProcessMessage(PartsBodies)
    \/ FinishConversation
    \/ WriteIndex

SpecParts == InitParts /\ [][NextParts]_vars

----------------------------------------------------------------------------
(* SpecOrder: one conversation whose nodes vary in what they hold and when *)

\* what a node can be: a message with its own time 1 or 2, a message timed by its
\* node, a message whose time is not a number in a node timed 2, a message that is
\* None, and a node without the key "message"
NodeShapes ==
    { Node(0, "dict", Num(1), NoTime),
      Node(0, "dict", Num(2), NoTime),
      Node(0, "dict", NoTime, Num(1)),
      Node(0, "dict", NotANumber, Num(2)),
      Node(0, "none", NoTime, NoTime),
      Node(0, "nokey", NoTime, Num(1)) }

Numbered(l) == [k \in 1..Len(l) |-> Node(k, l[k].kind, l[k].mct, l[k].nct)]

OrderMappings ==
    { PyDict(Numbered(l)) : l \in ListsOver(NodeShapes, MaxNodes) }
    \cup { PyDict(Numbered(<<Node(0, "dict", Num(0), Num(2)), Node(0, "dict", Num(1), NoTime),
                             Node(0, "empty", NoTime, Num(2))>>)),
           PyDict(Numbered(<<Node(0, "dict", NoTime, NoTime), Node(0, "str", NoTime, NoTime)>>)),
           PyNone }

OrderConvs == { Conv(<<"a">>, 1, m) : m \in OrderMappings }

\* a message of one unit and a message of two
OrderBodies ==
    { FromUser([content_type |-> S_text, parts |-> <<PyStr(T_h)>>]),
      FromUser([content_type |-> S_thoughts, thoughts |-> ThoughtList(2)]) }

InitOrder == InitWith(1, {EmptyDirectory}, {ArchiveListing})

NextOrder ==
    \/ BeginConversation(OrderConvs)
    \/ ProcessMessage(OrderBodies)
    \/ FinishConversation
    \/ WriteIndex

SpecOrder == InitOrder /\ [][NextOrder]_vars

----------------------------------------------------------------------------
(* SpecNames: runs of conversations whose titles collide *)

F_ab_2 == <<"a", "-", "b", "_", "_", "2">> \o S_html

\* "a/b" and "a-b" both canonicalize to a-b; "!" to untitled; None stands for Untitled
NamedConvs ==
    { Conv(t, 0, PlainMapping(n)) :
        t \in {<<"a", "/", "b">>, <<"a", "-", "b">>, <<"!">>, None}, n \in 0..1 }

\* a plain message, and an upload whose title is the second page name of a-b
NamedBodies ==
    { FromUser([content_type |-> S_text, parts |-> <<PyStr(T_h)>>]),
      FromUser([text |-> T_h, title |-> F_ab_2]) }

\* a directory a former run left the page a-b.html in
RerunDirectory ==
    WriteFile(EmptyDirectory, <<"a", "-", "b">> \o S_html, <<"page of a former run">>)

InitNames == InitWith(MaxNamed, {EmptyDirectory, RerunDirectory}, {ArchiveListing})

NextNames ==
    \/ BeginConversation(NamedConvs)
    \/ ProcessMessage(NamedBodies)
    \/ FinishConversation
    \/ WriteIndex

SpecNames == InitNames /\ [][NextNames]_vars

----------------------------------------------------------------------------
(* SpecRun: long runs of plain conversations *)

RunConvs == { Conv(t, 1, PlainMapping(1)) : t \in {<<"a", "/", "b">>, <<"a", "-", "b">>} }

RunBodies == { FromUser([content_type |-> S_text, parts |-> <<PyStr(T_h)>>]) }

InitRun == InitWith(MaxRun, {EmptyDirectory}, {ArchiveListing})

NextRun ==
    \/ BeginConversation(RunConvs)
    \/ ProcessMessage(RunBodies)
    \/ FinishConversation
    \/ WriteIndex

SpecRun == InitRun /\ [][NextRun]_vars

----------------------------------------------------------------------------
(* Properties of one visit of process_messages.  In a step from a state with         *)
(* pc = "msgs" and nodes left, the loop visits the message msg'.                     *)

\* the step visits message m, whose content is a dict
Visits(m) ==
    /\ pc = "msgs"
    /\ nodes # <<>>
    /\ m.t = "dict"
    /\ "content" \in DOMAIN m.v
    /\ m.v["content"].t = "dict"

ContentOf(m) == m.v["content"].v

\* the visit went on without an exception
GoesOn == pc' = "msgs" /\ err' = ""

\* the units built before the step are still there, in place
KeepsUnits == Len(msgs') >= Len(msgs) /\ SubSeq(msgs', 1, Len(msgs)) = msgs

\* the k-th unit the step appended
Appended(k) == msgs'[Len(msgs) + k]

\* c is a text or multimodal_text content with a parts list
IsTextContent(c) ==
    /\ {"content_type", "parts"} \subseteq DOMAIN c
    /\ c["content_type"] \in {S_text, S_multimodal_text}

IsImagePart(p) ==
    /\ p.t = "dict"
    /\ {"content_type", "asset_pointer"} \subseteq DOMAIN p.v
    /\ p.v["content_type"] = S_image_asset_pointer

HasKnownScheme(p) ==
    \/ StartsWith(p.v["asset_pointer"], <<"f", "i", "l", "e", "-", "s", "e", "r", "v", "i", "c", "e">>)
    \/ StartsWith(p.v["asset_pointer"], <<"s", "e", "d", "i", "m", "e", "n", "t">>)

\* every part is a string, an empty value, or an image pointer of a known scheme
FineParts(parts) ==
    \A k \in 1..Len(parts) :
        \/ parts[k].t \in {"str", "none"}
        \/ parts[k].t = "dict" /\ DOMAIN parts[k].v = {}
        \/ IsImagePart(parts[k]) /\ HasKnownScheme(parts[k])

\* the files an image part of a known scheme resolves to, in the order glob gives
Resolved(p) ==
    LET hit == IF "metadata" \in DOMAIN p.v
               THEN find_image(archive_dir, p.v["metadata"], PointerPattern(p.v["asset_pointer"]))
               ELSE <<>>
    IN  IF hit = <<>> THEN Glob(archive_dir, "root", PointerPattern(p.v["asset_pointer"]))
        ELSE hit

\* C4: staging is create-only and idempotent.  A visit of a text content changes no
\* file that is already in the output directory, also when an image it stages has the
\* basename of such a file, and raises nothing for it; a file it creates holds the
\* bytes of the first source staged under that name, whatever is staged under the
\* name after it.
C4_StagingCreateOnly ==
    [][ Visits(msg') /\ IsTextContent(ContentOf(msg'))
        => LET parts == ContentOf(msg')["parts"]
           IN  /\ \A f \in DOMAIN out_dir : f \in DOMAIN out_dir' /\ out_dir'[f] = out_dir[f]
               /\ ( /\ FineParts(parts)
                    /\ \E k \in 1..Len(parts) :
                          /\ IsImagePart(parts[k])
                          /\ \E j \in 1..Len(Resolved(parts[k])) :
                                Resolved(parts[k])[j].name \in DOMAIN out_dir )
                  => GoesOn
               /\ ( Len(parts) = 1 /\ IsImagePart(parts[1]) /\ HasKnownScheme(parts[1]) )
                  => \A f \in DOMAIN out_dir' \ DOMAIN out_dir :
                        \E j \in 1..Len(Resolved(parts[1])) :
                            /\ Resolved(parts[1])[j].name = f
                            /\ Resolved(parts[1])[j].data = out_dir'[f]
                            /\ \A h \in 1..(j - 1) : Resolved(parts[1])[h].name # f ]_vars

\* a state after the image Za was staged onto a file Za that was there before: the
\* unit is appended and the file holds its former bytes
C4_Witness ==
    /\ pc = "msgs"
    /\ err = ""
    /\ msg.t = "dict"
    /\ "content" \in DOMAIN msg.v
    /\ msg.v["content"].t = "dict"
    /\ IsTextContent(ContentOf(msg))
    /\ Len(ContentOf(msg)["parts"]) = 1
    /\ IsImagePart(ContentOf(msg)["parts"][1])
    /\ msgs # <<>>
    /\ msgs[Len(msgs)].content = P_image_file \o <<"Z", "a">>
    /\ <<"Z", "a">> \in DOMAIN out_dir
    /\ out_dir[<<"Z", "a">>] = <<"bytes staged before">>

\* the glob pattern of an asset pointer, without its "*": the pointer less its first
\* 15 characters (file-service) or 11 characters (sediment)
C6_Pattern(p) ==
    IF StartsWith(p.v["asset_pointer"], <<"f", "i", "l", "e", "-", "s", "e", "r", "v", "i", "c", "e">>)
    THEN SubSeq(p.v["asset_pointer"], 16, Len(p.v["asset_pointer"]))
    ELSE SubSeq(p.v["asset_pointer"], 12, Len(p.v["asset_pointer"]))

\* the places an image part is searched in
C6_Tiers(p) ==
    IF /\ "metadata" \in DOMAIN p.v
       /\ p.v["metadata"].t = "dict"
       /\ "dalle" \in DOMAIN p.v["metadata"].v
       /\ p.v["metadata"].v["dalle"].t # "none"
    THEN {"dalle-generations", "user-*", "root"}
    ELSE {"root"}

C6_NoMatch(p) ==
    \A k \in 1..Len(archive_dir) : \A w \in C6_Tiers(p) :
        ~(InDir(w, archive_dir[k].dir) /\ StartsWith(archive_dir[k].name, C6_Pattern(p)))

\* C6: an image pointer of a known scheme never fails.  A visit of a text content
\* whose parts are strings, empty values and image pointers of the schemes
\* file-service and sediment raises nothing; a single image part without metadata
\* appends one image unit per entry of the archive root whose name starts with the
\* pointer less its first 15 (file-service) or 11 (sediment) characters; when no
\* image part matches a file in any place searched, no image unit is appended, the
\* output directory is unchanged and the string parts still get their units; a
\* pointer of another scheme ends the visit with an exception.
C6_ResolutionNeverFails ==
    [][ Visits(msg') /\ IsTextContent(ContentOf(msg'))
        => LET parts == ContentOf(msg')["parts"]
               images == { k \in 1..Len(parts) : IsImagePart(parts[k]) }
               texts == { k \in 1..Len(parts) : parts[k].t = "str" /\ parts[k].v # <<>> }
               others == { k \in 1..Len(parts) :
                             ~IsImagePart(parts[k]) /\ parts[k].t \notin {"str", "none"}
                             /\ ~(parts[k].t = "dict" /\ DOMAIN parts[k].v = {}) }
           IN  /\ FineParts(parts) => GoesOn
               /\ (Len(parts) = 1 /\ IsImagePart(parts[1]) /\ HasKnownScheme(parts[1])
                   /\ "metadata" \notin DOMAIN parts[1].v)
                  => LET hits == SelectSeq(archive_dir,
                                    LAMBDA e : e.dir = <<>>
                                               /\ StartsWith(e.name, C6_Pattern(parts[1])))
                     IN  /\ Len(msgs') = Len(msgs) + Len(hits)
                         /\ \A k \in 1..Len(hits) :
                               Appended(k).content = P_image_file \o hits[k].name
               /\ (FineParts(parts) /\ \A k \in images : C6_NoMatch(parts[k]))
                  => /\ out_dir' = out_dir
                     /\ KeepsUnits
                     /\ Len(msgs') = Len(msgs) + Cardinality(texts)
                     /\ \A k \in 1..Cardinality(texts) :
                           StartsWith(Appended(k).content, P_conversation)
               /\ (others = {} /\ \E k \in images : ~HasKnownScheme(parts[k]))
                  => /\ pc' = "failed"
                     /\ err' = "Exception: Unexpected asset pointer" ]_vars

\* a state after a visit of the parts [pointer that matches nothing, "h"]: no
\* exception, the unit of "h" appended, and more messages to visit
C6_Witness ==
    /\ pc = "msgs"
    /\ err = ""
    /\ nodes # <<>>
    /\ msg.t = "dict"
    /\ "content" \in DOMAIN msg.v
    /\ msg.v["content"].t = "dict"
    /\ IsTextContent(ContentOf(msg))
    /\ Len(ContentOf(msg)["parts"]) = 2
    /\ IsImagePart(ContentOf(msg)["parts"][1])
    /\ C6_NoMatch(ContentOf(msg)["parts"][1])
    /\ ContentOf(msg)["parts"][2] = PyStr(T_h)
    /\ Len(msgs) = 1
    /\ msgs[1].content = P_conversation \o T_h \o <<"\n">>

RECURSIVE C7_Expected(_)
\* the payloads the parts call for, in the order of the parts
C7_Expected(parts) ==
    IF parts = <<>> THEN <<>>
    ELSE ( IF Head(parts).t = "str" /\ Head(parts).v # <<>>
           THEN << <<"c", "o", "n", "v", "e", "r", "s", "a", "t", "i", "o", "n", ":">>
                      \o Head(parts).v \o <<"\n">> >>
           ELSE IF IsImagePart(Head(parts))
           THEN [k \in 1..Len(Resolved(Head(parts))) |->
                    <<"i", "m", "a", "g", "e", "_", "f", "i", "l", "e", ":">>
                        \o Resolved(Head(parts))[k].name]
           ELSE <<>> )
         \o C7_Expected(Tail(parts))

\* C7: a text or multimodal_text content appends its units in the order of its
\* parts: one conversation unit per non-empty string, one image unit per file an
\* image pointer resolves to, nothing for an empty part, each with the author and
\* the audience of the message.
C7_UnitsInPartsOrder ==
    [][ ( /\ Visits(msg')
          /\ IsTextContent(ContentOf(msg'))
          /\ FineParts(ContentOf(msg')["parts"]) )
        => LET expected == C7_Expected(ContentOf(msg')["parts"])
           IN  /\ GoesOn
               /\ KeepsUnits
               /\ Len(msgs') = Len(msgs) + Len(expected)
               /\ \A k \in 1..Len(expected) :
                     /\ Appended(k).content = expected[k]
                     /\ Appended(k).role = msg'.v["author"]["role"]
                     /\ Appended(k).audience =
                            (IF "recipient" \in DOMAIN msg'.v THEN msg'.v["recipient"]
                             ELSE None) ]_vars

\* a state after the parts ["h", pointer to Xa, "g"] of a message to a recipient:
\* three units in that order, after the units of an earlier message
C7_Witness ==
    /\ pc = "msgs"
    /\ msg.t = "dict"
    /\ "content" \in DOMAIN msg.v
    /\ msg.v["content"].t = "dict"
    /\ IsTextContent(ContentOf(msg))
    /\ ContentOf(msg)["parts"] = <<PyStr(T_h), ImgX, PyStr(T_g)>>
    /\ "recipient" \in DOMAIN msg.v
    /\ Len(msgs) > 3
    /\ msgs[Len(msgs) - 2] = Unit(S_assistant, <<"t", ".", "x">>, P_conversation \o T_h \o <<"\n">>)
    /\ msgs[Len(msgs) - 1] = Unit(S_assistant, <<"t", ".", "x">>, P_image_file \o <<"X", "a">>)
    /\ msgs[Len(msgs)] = Unit(S_assistant, <<"t", ".", "x">>, P_conversation \o T_g \o <<"\n">>)

\* C5: a plain text upload (text and title, no content_type) whose title names a file
\* that is already in the output directory skips the write without an error, leaves
\* that file as it is, and still appends one text_file unit that names the title.
C5_UploadConflictSkipped ==
    [][ ( /\ Visits(msg')
          /\ "content_type" \notin DOMAIN ContentOf(msg')
          /\ {"text", "title"} \subseteq DOMAIN ContentOf(msg')
          /\ ContentOf(msg')["title"] \in DOMAIN out_dir )
        => /\ GoesOn
           /\ out_dir' = out_dir
           /\ KeepsUnits
           /\ Len(msgs') = Len(msgs) + 1
           /\ Appended(1).content = P_text_file \o ContentOf(msg')["title"] ]_vars

\* C8: a content with a thoughts list of n entries, dispatched by content_type
\* "thoughts" or for want of content_type and text, appends exactly n units, the k-th
\* "thought:" + summary_k + ":" + content_k, in list order; content_type "thoughts"
\* with a text and no thoughts appends one "code:" unit; with neither, the visit fails.
C8_ThoughtsReduced ==
    [][ ( /\ Visits(msg')
          /\ \/ /\ "content_type" \in DOMAIN ContentOf(msg')
                /\ ContentOf(msg')["content_type"] = S_thoughts
             \/ /\ "content_type" \notin DOMAIN ContentOf(msg')
                /\ "text" \notin DOMAIN ContentOf(msg')
                /\ "thoughts" \in DOMAIN ContentOf(msg') )
        => LET c == ContentOf(msg')
           IN  IF "thoughts" \in DOMAIN c
               THEN (\A k \in 1..Len(c["thoughts"]) :
                        {"summary", "content"} \subseteq DOMAIN c["thoughts"][k])
                    => /\ GoesOn
                       /\ KeepsUnits
                       /\ Len(msgs') = Len(msgs) + Len(c["thoughts"])
                       /\ \A k \in 1..Len(c["thoughts"]) :
                            Appended(k).content =
                                <<"t", "h", "o", "u", "g", "h", "t", ":">>
                                    \o c["thoughts"][k]["summary"] \o <<":">>
                                    \o c["thoughts"][k]["content"]
               ELSE IF "text" \in DOMAIN c
               THEN /\ GoesOn
                    /\ KeepsUnits
                    /\ Len(msgs') = Len(msgs) + 1
                    /\ Appended(1).content = <<"c", "o", "d", "e", ":">> \o c["text"]
               ELSE pc' = "failed" /\ msgs' = msgs ]_vars

\* a state after such a visit: two thoughts, two units "thought:a:b" and "thought:c:d"
C8_Witness ==
    /\ pc = "msgs"
    /\ msg.t = "dict"
    /\ "content" \in DOMAIN msg.v
    /\ msg.v["content"].t = "dict"
    /\ "thoughts" \in DOMAIN ContentOf(msg)
    /\ "content_type" \in DOMAIN ContentOf(msg)
    /\ ContentOf(msg)["content_type"] = S_thoughts
    /\ Len(ContentOf(msg)["thoughts"]) = 2
    /\ Len(msgs) >= 3
    /\ msgs[Len(msgs) - 1].content = P_thought \o <<"a", ":", "b">>
    /\ msgs[Len(msgs)].content = P_thought \o <<"c", ":", "d">>

\* C9: a content whose content_type is execution_output, reasoning_recap,
\* tether_browsing_display, tether_quote or system_error appends no unit, raises
\* nothing and leaves the units and the output directory as they were, whatever
\* other fields it has.
C9_NoRenderIsNoOp ==
    [][ ( /\ Visits(msg')
          /\ "content_type" \in DOMAIN ContentOf(msg')
          /\ ContentOf(msg')["content_type"] \in
                {S_execution_output, S_reasoning_recap, S_tether_browsing_display,
                 S_tether_quote, S_system_error} )
        => GoesOn /\ msgs' = msgs /\ out_dir' = out_dir ]_vars

\* a state after a system_error content that has text, title, thoughts, parts and
\* content as well, with earlier units still in msgs
C9_Witness ==
    /\ pc = "msgs"
    /\ err = ""
    /\ msgs # <<>>
    /\ msg.t = "dict"
    /\ "content" \in DOMAIN msg.v
    /\ msg.v["content"].t = "dict"
    /\ {"content_type", "text", "title", "thoughts", "parts", "content"}
           \subseteq DOMAIN ContentOf(msg)
    /\ ContentOf(msg)["content_type"] = S_system_error
    /\ F_notes \notin DOMAIN out_dir

\* C10: the classifier takes the first of content_type, text, thoughts that the
\* content has.  With a content_type the content is never handled as a text upload
\* (no file is created for its title, no text_file unit) nor, unless the type says
\* so, as thoughts; without content_type but with text it is a text upload even when
\* it has thoughts; with thoughts only it is reduced to thought units; with none of
\* the three the visit fails as an unrecognized content block.
C10_FirstMatchWins ==
    [][ Visits(msg')
        => LET c == ContentOf(msg')
           IN  IF "content_type" \in DOMAIN c
               THEN /\ err' # "FileExistsError"
                    /\ ("title" \in DOMAIN c /\ c["title"] \notin DOMAIN out_dir
                           => c["title"] \notin DOMAIN out_dir')
                    /\ \A k \in 1..(Len(msgs') - Len(msgs)) :
                          /\ ~StartsWith(Appended(k).content, P_text_file)
                          /\ (c["content_type"] # S_thoughts
                                 => ~StartsWith(Appended(k).content, P_thought))
                    /\ (c["content_type"] = S_code /\ "text" \in DOMAIN c
                           => /\ GoesOn
                              /\ msgs' = Append(msgs, Unit(msgs'[Len(msgs')].role,
                                                           msgs'[Len(msgs')].audience,
                                                           P_code \o c["text"])))
               ELSE IF "text" \in DOMAIN c
               THEN \/ "title" \notin DOMAIN c /\ pc' = "failed" /\ err' = "KeyError"
                    \/ /\ "title" \in DOMAIN c
                       /\ c["title"] \in DOMAIN out_dir
                       /\ pc' = "failed"
                       /\ err' = "FileExistsError"
                    \/ /\ "title" \in DOMAIN c
                       /\ c["title"] \notin DOMAIN out_dir
                       /\ GoesOn
                       /\ out_dir' = WriteFile(out_dir, c["title"], c["text"])
                       /\ KeepsUnits
                       /\ Len(msgs') = Len(msgs) + 1
                       /\ Appended(1).content = P_text_file \o c["title"]
               ELSE IF "thoughts" \in DOMAIN c
               THEN /\ out_dir' = out_dir
                    /\ KeepsUnits
                    /\ \A k \in 1..(Len(msgs') - Len(msgs)) :
                          StartsWith(Appended(k).content, P_thought)
                    /\ (GoesOn => Len(msgs') = Len(msgs) + Len(c["thoughts"]))
               ELSE /\ pc' = "failed"
                    /\ err' = "Exception: Unrecognized content block"
                    /\ msgs' = msgs
                    /\ out_dir' = out_dir ]_vars

\* a state after a content with content_type "code" that also has text, title and
\* thoughts: one "code:" unit, and no file under its title
C10_Witness ==
    /\ pc = "msgs"
    /\ msg.t = "dict"
    /\ "content" \in DOMAIN msg.v
    /\ msg.v["content"].t = "dict"
    /\ {"content_type", "text", "title", "thoughts"} \subseteq DOMAIN ContentOf(msg)
    /\ ContentOf(msg)["content_type"] = S_code
    /\ msgs # <<>>
    /\ msgs[Len(msgs)].content = P_code \o ContentOf(msg)["text"]
    /\ ContentOf(msg)["title"] \notin DOMAIN out_dir

----------------------------------------------------------------------------
(* Properties of the order of process_messages and of the pages of a run *)

\* C1: in the list process_messages builds, the units stand in the order of the sort
\* timestamps of the messages they come from, and units of messages with equal
\* timestamps stand in the order of their nodes in the mapping.  origin[k] is the node
\* whose message yielded msgs[k]
C1_OutputInSortOrder ==
    pc = "msgs" =>
        /\ Len(origin) = Len(msgs)
        /\ \A a, b \in 1..Len(origin) :
              a < b =>
                 /\ key_fn(origin[a]) <= key_fn(origin[b])
                 /\ (key_fn(origin[a]) = key_fn(origin[b]) => origin[a].pos <= origin[b].pos)

\* process_messages has gone through a mapping where the sort moved a message before one
\* that precedes it in the mapping, and where two messages share a timestamp
C1_Witness ==
    /\ pc = "msgs"
    /\ nodes = <<>>
    /\ \E a, b \in 1..Len(origin) : a < b /\ origin[a].pos > origin[b].pos
    /\ \E a, b \in 1..Len(origin) :
          a < b /\ origin[a].pos < origin[b].pos /\ key_fn(origin[a]) = key_fn(origin[b])

\* C2: a run over N well-formed conversations ends with N pages, each in the output
\* directory, and an index.html of N entries
C2_OnePagePerConversation ==
    pc = "done" =>
        /\ Len(index_items) = n_convs
        /\ Cardinality({index_items[k][2] : k \in 1..Len(index_items)}) = n_convs
        /\ \A k \in 1..Len(index_items) : Exists(out_dir, index_items[k][2])
        /\ Exists(out_dir, S_index_html)

\* the names get_unique_path can give to a title of this stem
StemNames(stem) ==
    {stem \o S_html} \cup {Candidate(stem, k) : k \in 2..(Cardinality(DOMAIN out_dir) + 2)}

\* the pages this run has written under the names of a stem
PagesOf(stem) == {k \in 1..Len(index_items) : index_items[k][2] \in StemNames(stem)}

\* <name>.html for the first conversation of a name, <name>__k.html for the k-th
RankName(stem) ==
    IF PagesOf(stem) = {} THEN stem \o S_html
    ELSE Candidate(stem, Cardinality(PagesOf(stem)) + 1)

\* the step of generate_html that calls get_unique_path
CallsGetUniquePath == pc = "loop" /\ pc' \in {"msgs", "failed"}

\* every file of the directory under a name of the stem is a page of this run
OnlyPagesOfThisRun(stem) ==
    \A name \in DOMAIN out_dir \cap StemNames(stem) :
        \E k \in 1..Len(index_items) : index_items[k][2] = name

\* C3 as stated: the path get_unique_path returns is no existing file and no page of
\* this run, and it is <name>.html for the first conversation of a name and
\* <name>__k.html for the k-th
C3_KthGetsSuffixK ==
    [][ CallsGetUniquePath =>
          LET stem == canonicalize(TitleOf(conv'))
          IN  /\ ~Exists(out_dir, out_path')
              /\ \A k \in 1..Len(index_items) : index_items[k][2] # out_path'
              /\ out_path' = RankName(stem) ]_vars

\* C3, amended: the path get_unique_path returns is no existing file and no page of this
\* run; it is <name>.html when that is free, else <name>__k.html for the least k >= 2
\* that is free; and it is the rank name, <name>__k.html for the k-th conversation of the
\* name, when the directory holds no other file under the names of the stem
C3_DistinctFirstFree ==
    [][ CallsGetUniquePath =>
          LET stem == canonicalize(TitleOf(conv'))
          IN  /\ ~Exists(out_dir, out_path')
              /\ \A k \in 1..Len(index_items) : index_items[k][2] # out_path'
              /\ \/ out_path' = stem \o S_html
                 \/ /\ Exists(out_dir, stem \o S_html)
                    /\ \E k \in 2..(Cardinality(DOMAIN out_dir) + 2) :
                          /\ out_path' = Candidate(stem, k)
                          /\ \A j \in 2..(k - 1) : Exists(out_dir, Candidate(stem, j))
              /\ (OnlyPagesOfThisRun(stem) => out_path' = RankName(stem)) ]_vars

\* the third conversation of a run whose first two, titled differently, took a-b.html
\* and a-b__2.html: it is given a-b__3.html
C3_Witness ==
    /\ pc = "msgs"
    /\ Len(index_items) = 2
    /\ index_items[1][1] # index_items[2][1]
    /\ index_items[1][2] = <<"a", "-", "b">> \o S_html
    /\ index_items[2][2] = Candidate(<<"a", "-", "b">>, 2)
    /\ out_path = Candidate(<<"a", "-", "b">>, 3)

----------------------------------------------------------------------------
(* Properties of the contents outside the registry and of the failures of a run *)

\* the content types process_content_type has a branch for
Registry ==
    {S_text, S_code, S_thoughts, S_multimodal_text, S_user_editable_context}
    \cup NoRenderTypes

\* process_messages has returned and generate_html renders and writes the page
WritesPage == pc = "msgs" /\ nodes = <<>>

\* C11: a content whose content_type is outside the registry and that has a "content"
\* field yields one unit "<content_type>:<content>" and no error, and the conversation
\* holding it gets its page; without a "content" field the visit fails
C11_GenericUnitRenders ==
    [][ /\ ( /\ Visits(msg')
             /\ "content_type" \in DOMAIN ContentOf(msg')
             /\ ContentOf(msg')["content_type"] \notin Registry )
           => IF "content" \in DOMAIN ContentOf(msg')
              THEN /\ GoesOn
                   /\ KeepsUnits
                   /\ Len(msgs') = Len(msgs) + 1
                   /\ Appended(1).content =
                         ContentOf(msg')["content_type"] \o <<":">> \o ContentOf(msg')["content"]
                   /\ out_dir' = out_dir
              ELSE pc' = "failed"
        /\ ( /\ WritesPage
             /\ \E k \in 1..Len(msgs) : StartsWith(msgs[k].content, S_foo \o <<":">>) )
           => /\ pc' = "loop"
              /\ err' = ""
              /\ Exists(out_dir', out_path) ]_vars

\* an exception has left generate_html: the run is over, with no index.html written by it
RunAborted == pc = "failed"

\* C12: an error raised while one conversation is processed does not end the run: no
\* exception leaves generate_html, and the run ends with index.html and the pages of the
\* conversations it recorded in the output directory
C12_ErrorAbortsOneConversation ==
    /\ ~RunAborted
    /\ pc = "done" =>
          /\ Exists(out_dir, S_index_html)
          /\ \A k \in 1..Len(index_items) : Exists(out_dir, index_items[k][2])

\* the sort key as C13 states it: the create_time of the message when it is a number,
\* else that of the node when it is a number, else 0
C13_Key(n) ==
    IF n.mct.t = "num" THEN n.mct.v
    ELSE IF n.nct.t = "num" THEN n.nct.v
    ELSE 0

\* C13: the nodes process_messages goes through have, as their sort key, the message's
\* create_time if numeric, else the node's if numeric, else 0, and stand in the order of
\* that key; a create_time that is no number raises nothing
C13_SortKeyFallsBack ==
    /\ pc = "msgs" =>
          /\ \A k \in 1..Len(nodes) :
                nodes[k].kind = "dict" => key_fn(nodes[k]) = C13_Key(nodes[k])
          /\ \A a, b \in 1..Len(nodes) :
                (a < b /\ nodes[a].kind = "dict" /\ nodes[b].kind = "dict")
                   => C13_Key(nodes[a]) <= C13_Key(nodes[b])
    /\ ( /\ pc = "failed"
         /\ conv.mapping.t = "dict"
         /\ \A k \in 1..Len(conv.mapping.v) : conv.mapping.v[k].kind # "str" )
       => err # "AttributeError"

\* C14: the visit of a content with no content_type, with "text" and without "title"
\* raises nothing, writes the text to a file of some name and appends one text_file unit
C14_UploadWithoutTitle ==
    [][ ( /\ Visits(msg')
          /\ "content_type" \notin DOMAIN ContentOf(msg')
          /\ "text" \in DOMAIN ContentOf(msg')
          /\ "title" \notin DOMAIN ContentOf(msg') )
        => /\ GoesOn
           /\ KeepsUnits
           /\ Len(msgs') = Len(msgs) + 1
           /\ StartsWith(Appended(1).content, P_text_file)
           /\ \E f \in DOMAIN out_dir' \ DOMAIN out_dir :
                 out_dir'[f] = ContentOf(msg')["text"] ]_vars

----------------------------------------------------------------------------
(* SpecFresh: runs into an empty output directory, over titles and uploads that name *)
(* the files the run writes itself                                                  *)

\* conversations titled "index" and "a", of no message or one
FreshConvs ==
    { Conv(t, 1, PlainMapping(n)) : t \in {<<"i", "n", "d", "e", "x">>, <<"a">>}, n \in 0..1 }

\* a plain message, an upload titled a.html, and a message with an image to stage
FreshBodies ==
    { FromUser([content_type |-> S_text, parts |-> <<PyStr(T_h)>>]),
      FromUser([text |-> T_h, title |-> <<"a">> \o S_html]),
      FromUser([content_type |-> S_multimodal_text, parts |-> <<ImgX>>]) }

InitFresh == InitWith(MaxConvs, {EmptyDirectory}, {ArchiveListing})

NextFresh ==
    \/ BeginConversation(FreshConvs)
    \/ ProcessMessage(FreshBodies)
    \/ FinishConversation
    \/ WriteIndex

SpecFresh == InitFresh /\ [][NextFresh]_vars

\* C15: in a run that starts with an empty output directory, so that every file in it was
\* created by the run, no step writes over a file: each file stays, with its contents
C15_NoOverwriteWithinRun ==
    [][ \A f \in DOMAIN out_dir :
           /\ f \in DOMAIN out_dir'
           /\ out_dir'[f] = out_dir[f] ]_vars

====
